---- MODULE Spec2Model ----
(***************************************************************************)
(* Model of src/ble_communication.py: the BLE session with the COAPT EMGC  *)
(* evaluation kit.  One asyncio event loop runs three activities:          *)
(*   - main            the session lifecycle (connect, subscribe, record,  *)
(*                     wait for STOP_EVENT, disconnect);                   *)
(*   - send_heartbeat  the heartbeat task created by main;                 *)
(*   - handle_tx_data  the notification callback, run once per inbound     *)
(*                     frame.                                              *)
(* A step of the model is the code a coroutine runs between two of its     *)
(* suspension points (await), or one run of the callback.  time.time() is  *)
(* the variable now, counted in whole seconds.                             *)
(***************************************************************************)
EXTENDS Integers, Sequences, FiniteSets, TLC

VARIABLES
    now,                        \* time.time()
    record,                     \* main(record=...)
    interval,                   \* main(interval=...)
    mainPc,                     \* where main is suspended
    notify,                     \* handle_tx_data is registered (start_notify)
    disconnects,                \* calls of client.disconnect() so far
    windowDeadline,             \* when asyncio.sleep(interval) of main ends
    callStart,                  \* when client.disconnect() was called
    armedAt,                    \* when RECORDING_EVENT was set
    STOP_EVENT,
    RECORDING_EVENT,
    RECORDING_START,
    csvfile,                    \* rows of EMG_DATA_FILE
    HEARTBEAT_ID,
    LAST_HEARTBEAT_SENT_TIME,
    HEARTBEAT_EVENT,
    hbPc,                       \* where send_heartbeat is suspended
    heartbeat_packet,           \* the packet of the latest write_gatt_char
    hbTimer,                    \* send_heartbeat's await: when its write began,
                                \* or when its wait_for / sleep is due
    sent,                       \* successful write_gatt_char calls so far
    firstSentAt,                \* time of the first successful write
    rx,                         \* the run of handle_tx_data in the latest step
    codec                       \* input and output of the packet functions

vars == <<now, record, interval, mainPc, notify, disconnects, windowDeadline,
          callStart, armedAt,
          STOP_EVENT, RECORDING_EVENT, RECORDING_START, csvfile,
          HEARTBEAT_ID, LAST_HEARTBEAT_SENT_TIME, HEARTBEAT_EVENT,
          hbPc, heartbeat_packet, hbTimer, sent, firstSentAt, rx, codec>>

mainVars == <<record, interval, mainPc, notify, disconnects, windowDeadline,
              callStart, armedAt>>
recVars  == <<RECORDING_EVENT, RECORDING_START, csvfile>>
hbVars   == <<HEARTBEAT_ID, LAST_HEARTBEAT_SENT_TIME, hbPc, heartbeat_packet,
              hbTimer, sent, firstSentAt>>

-----------------------------------------------------------------------------
(* Program constants *)

EMG_RECORDING_INTERVAL == 10
HEARTBEAT_INTERVAL == 2
HEARTBEAT_TIMEOUT == 2
HARD_TIMEOUT == 5

(* Bounds of the model *)

\* time.time() when the session starts (seconds since the epoch, far above
\* HARD_TIMEOUT)
StartClock == 100
\* seconds of the session the model follows
MaxTime == 12
\* seconds followed by the long heartbeat run (enough for the id to wrap)
MaxTimeLong == 516
\* data rows appended to the csv file
MaxRows == 2
\* a recording interval shorter than the default one
ShortInterval == 3
\* seconds a call of the transport (write_gatt_char, disconnect) may take
MaxCallTime == 1

-----------------------------------------------------------------------------
(* Python values *)

None == <<>>
Some(v) == <<v>>
Val(o) == o[1]

\* data[i] of a Python sequence (indices from 0)
At(data, i) == data[i + 1]

\* range(start, stop, step) for a positive step
Range(start, stop, step) ==
    {i \in start..(stop - 1) : (i - start) % step = 0}

\* a << n
ShiftLeft(a, n) == a * (2 ^ n)

\* a | b on non-negative integers
RECURSIVE BitOr(_, _)
BitOr(a, b) ==
    IF a = 0 THEN b
    ELSE IF b = 0 THEN a
    ELSE (IF a % 2 = 1 \/ b % 2 = 1 THEN 1 ELSE 0) + 2 * BitOr(a \div 2, b \div 2)

-----------------------------------------------------------------------------
(* Packet functions *)

\* construct_heartbeat_packet with two bytes of nzdata
construct_heartbeat_packet_ShortMarker(heartbeat_id) ==
    LET packet0 == <<>>
        packet1 == Append(packet0, 1)
        packet2 == Append(packet1, heartbeat_id)
        packet3 == packet2 \o <<255, 255>>
    IN  Append(packet3, 10)

construct_heartbeat_packet(heartbeat_id) ==
    LET packet0 == <<>>
        packet1 == Append(packet0, 1)                   \* Type 0x01
        packet2 == Append(packet1, heartbeat_id)        \* ID
        packet3 == packet2 \o <<255, 255, 255>>         \* nzdata
    IN  Append(packet3, 10)                             \* end 0x0A

\* process_emg_signal reading each pair low byte first
process_emg_signal_LittleEndian(data) ==
    LET indices == Range(1, 16, 2)
    IN  IF \E i \in indices : i + 1 >= Len(data)
        THEN [raised |-> TRUE, values |-> <<>>]
        ELSE [raised |-> FALSE,
              values |-> [k \in 1..Cardinality(indices) |->
                             LET i == 1 + 2 * (k - 1)
                             IN  BitOr(ShiftLeft(At(data, i + 1), 8), At(data, i))]]

\* The loop of process_emg_signal reads data[i] and data[i + 1] for i in
\* range(1, 16, 2); an index past the end of data raises IndexError.
process_emg_signal(data) ==
    LET indices == Range(1, 16, 2)
    IN  IF \E i \in indices : i + 1 >= Len(data)
        THEN [raised |-> TRUE, values |-> <<>>]
        ELSE [raised |-> FALSE,
              values |-> [k \in 1..Cardinality(indices) |->
                             LET i == 1 + 2 * (k - 1)
                             IN  BitOr(ShiftLeft(At(data, i), 8), At(data, i + 1))]]

\* process_heartbeat_packet without line 161: a mismatch sets no event
process_heartbeat_packet_Strict(data) ==
    IF Len(data) < 2
    THEN [raised |-> TRUE, matched |-> FALSE, received_id |-> None,
          event |-> HEARTBEAT_EVENT]
    ELSE LET received_id == At(data, 1)
             expected_id == (HEARTBEAT_ID - 1) % 256
         IN  IF received_id = expected_id
             THEN [raised |-> FALSE, matched |-> TRUE,
                   received_id |-> Some(received_id), event |-> TRUE]
             ELSE [raised |-> FALSE, matched |-> FALSE,
                   received_id |-> Some(received_id),
                   event |-> HEARTBEAT_EVENT]

\* process_heartbeat_packet: data[1] raises IndexError on a frame of one
\* byte; both branches of the comparison set HEARTBEAT_EVENT.
process_heartbeat_packet(data) ==
    IF Len(data) < 2
    THEN [raised |-> TRUE, matched |-> FALSE, received_id |-> None,
          event |-> HEARTBEAT_EVENT]
    ELSE LET received_id == At(data, 1)
             expected_id == (HEARTBEAT_ID - 1) % 256
         IN  IF received_id = expected_id
             THEN [raised |-> FALSE, matched |-> TRUE,
                   received_id |-> Some(received_id), event |-> TRUE]
             ELSE [raised |-> FALSE, matched |-> FALSE,
                   received_id |-> Some(received_id), event |-> TRUE]

\* The csv rows
Header == <<"Timestamp", "Channel 1", "Channel 2", "Channel 3", "Channel 4",
            "Channel 5", "Channel 6", "Channel 7", "Channel 8">>
Row(elapsed, signal_features) == <<elapsed>> \o signal_features

\* What the callback did, when the step just taken is a run of it
Rx(data, outcome, received_id) ==
    [data |-> data, outcome |-> outcome, received_id |-> received_id]
NoRx == Rx(<<>>, "none", None)

\* parse_received_data without the test of RECORDING_EVENT on line 94
parse_received_data_Always(data) ==
    IF Len(data) = 0
    THEN /\ rx' = Rx(data, "IndexError", None)
         /\ UNCHANGED <<HEARTBEAT_EVENT, recVars>>
    ELSE LET message_type == At(data, 0) IN
         CASE message_type = 1 ->
                LET r == process_heartbeat_packet(data) IN
                /\ HEARTBEAT_EVENT' = r.event
                /\ rx' = Rx(data,
                            IF r.raised THEN "IndexError"
                            ELSE IF r.matched THEN "heartbeat" ELSE "mismatch",
                            r.received_id)
                /\ UNCHANGED recVars
           [] message_type = 4 ->
                LET r == process_emg_signal(data) IN
                IF r.raised
                THEN /\ rx' = Rx(data, "IndexError", None)
                     /\ UNCHANGED <<HEARTBEAT_EVENT, recVars>>
                ELSE /\ rx' = Rx(data, "samples", None)
                     /\ RECORDING_START' =
                           IF RECORDING_START = None THEN Some(now)
                           ELSE RECORDING_START
                     /\ csvfile' = Append(csvfile,
                           Row(now - Val(RECORDING_START'), r.values))
                     /\ UNCHANGED <<HEARTBEAT_EVENT, RECORDING_EVENT>>
           [] OTHER ->
                /\ rx' = Rx(data, "ignored", None)
                /\ UNCHANGED <<HEARTBEAT_EVENT, recVars>>

\* parse_received_data(data), the body of the callback handle_tx_data
parse_received_data(data) ==
    IF Len(data) = 0
    THEN \* data[0] raises IndexError
         /\ rx' = Rx(data, "IndexError", None)
         /\ UNCHANGED <<HEARTBEAT_EVENT, recVars>>
    ELSE LET message_type == At(data, 0) IN
         CASE message_type = 1 ->
                LET r == process_heartbeat_packet(data) IN
                /\ HEARTBEAT_EVENT' = r.event
                /\ rx' = Rx(data,
                            IF r.raised THEN "IndexError"
                            ELSE IF r.matched THEN "heartbeat" ELSE "mismatch",
                            r.received_id)
                /\ UNCHANGED recVars
           [] message_type = 4 ->
                LET r == process_emg_signal(data) IN
                IF r.raised
                THEN /\ rx' = Rx(data, "IndexError", None)
                     /\ UNCHANGED <<HEARTBEAT_EVENT, recVars>>
                ELSE /\ rx' = Rx(data, "samples", None)
                     /\ IF RECORDING_EVENT
                        THEN /\ RECORDING_START' =
                                  IF RECORDING_START = None THEN Some(now)
                                  ELSE RECORDING_START
                             /\ csvfile' = Append(csvfile,
                                  Row(now - Val(RECORDING_START'), r.values))
                        ELSE UNCHANGED <<RECORDING_START, csvfile>>
                     /\ UNCHANGED <<HEARTBEAT_EVENT, RECORDING_EVENT>>
           [] OTHER ->
                /\ rx' = Rx(data, "ignored", None)
                /\ UNCHANGED <<HEARTBEAT_EVENT, recVars>>

(* Inbound frames *)

\* where main is while the callback is registered
Streaming == {"subscribing", "recording", "wait_stop", "disconnecting"}

\* the 17-byte samples frame of channels 1..8
SamplesFrame == <<4, 0, 1, 0, 2, 0, 3, 0, 4, 0, 5, 0, 6, 0, 7, 0, 8>>
\* a samples frame of 15 bytes: tag and 14 payload bytes
ShortSamplesFrame == SubSeq(SamplesFrame, 1, 15)
\* frames the device may send at any time
RxFrames ==
    { <<>>, <<9, 0>>, <<1>>, ShortSamplesFrame, SamplesFrame,
      construct_heartbeat_packet(0) }
\* ... and the echo of the heartbeat packet written last
Echo == IF heartbeat_packet = None THEN {} ELSE {heartbeat_packet}

DataRows == Len(csvfile) - 1

handle_tx_data(data) ==
    /\ notify
    /\ mainPc \in Streaming
    /\ (RECORDING_EVENT /\ Len(data) > 0 /\ At(data, 0) = 4) => DataRows < MaxRows
    /\ parse_received_data(data)
    /\ UNCHANGED <<now, mainVars, STOP_EVENT, hbVars, codec>>

-----------------------------------------------------------------------------
(* send_heartbeat *)

\* line 125 without the modulus
NextHeartbeatId_NoWrap(id) == id + 1

\* (HEARTBEAT_ID + 1) % 256
NextHeartbeatId(id) == (id + 1) % 256

\* The loop head: the test of STOP_EVENT, then construct_heartbeat_packet and
\* the call of write_gatt_char, where the task suspends.
LoopHead ==
    IF STOP_EVENT
    THEN /\ hbPc' = "returned"
         /\ UNCHANGED <<heartbeat_packet, hbTimer>>
    ELSE /\ hbPc' = "writing"
         /\ heartbeat_packet' = construct_heartbeat_packet(HEARTBEAT_ID)
         /\ hbTimer' = now

\* The task created by main runs for the first time
HbStart ==
    /\ hbPc = "created"
    /\ LoopHead
    /\ rx' = NoRx
    /\ UNCHANGED <<now, mainVars, STOP_EVENT, recVars, HEARTBEAT_ID,
                   LAST_HEARTBEAT_SENT_TIME, HEARTBEAT_EVENT, sent,
                   firstSentAt, codec>>

\* write_gatt_char returns: lines 122-125, then wait_for suspends
HbWriteOk ==
    /\ hbPc = "writing"
    /\ LAST_HEARTBEAT_SENT_TIME' = now
    /\ HEARTBEAT_ID' = NextHeartbeatId(HEARTBEAT_ID)
    /\ sent' = sent + 1
    /\ firstSentAt' = IF firstSentAt = None THEN Some(now) ELSE firstSentAt
    /\ hbPc' = "waiting"
    /\ hbTimer' = now + HEARTBEAT_TIMEOUT
    /\ rx' = NoRx
    /\ UNCHANGED <<now, mainVars, STOP_EVENT, recVars, HEARTBEAT_EVENT,
                   heartbeat_packet, codec>>

\* HbWriteFails with the BleakError ending the loop and the session
HbWriteFails_Stops ==
    /\ hbPc = "writing"
    /\ hbPc' = "returned"
    /\ STOP_EVENT' = TRUE
    /\ rx' = NoRx
    /\ UNCHANGED <<now, mainVars, recVars, HEARTBEAT_EVENT,
                   HEARTBEAT_ID, LAST_HEARTBEAT_SENT_TIME, heartbeat_packet,
                   hbTimer, sent, firstSentAt, codec>>

\* HbWriteFails with HEARTBEAT_ID incremented for a rejected write too
HbWriteFails_NextId ==
    /\ hbPc = "writing"
    /\ hbPc' = "waiting"
    /\ HEARTBEAT_ID' = NextHeartbeatId(HEARTBEAT_ID)
    /\ hbTimer' = now + HEARTBEAT_TIMEOUT
    /\ rx' = NoRx
    /\ UNCHANGED <<now, mainVars, STOP_EVENT, recVars, HEARTBEAT_EVENT,
                   LAST_HEARTBEAT_SENT_TIME, heartbeat_packet,
                   sent, firstSentAt, codec>>

\* write_gatt_char raises BleakError: line 127, then wait_for suspends
HbWriteFails ==
    /\ hbPc = "writing"
    /\ hbPc' = "waiting"
    /\ hbTimer' = now + HEARTBEAT_TIMEOUT
    /\ rx' = NoRx
    /\ UNCHANGED <<now, mainVars, STOP_EVENT, recVars, HEARTBEAT_EVENT,
                   HEARTBEAT_ID, LAST_HEARTBEAT_SENT_TIME, heartbeat_packet,
                   sent, firstSentAt, codec>>

\* HbResponse without the sleep of line 132
HbResponse_NoSleep ==
    /\ hbPc = "waiting"
    /\ HEARTBEAT_EVENT
    /\ HEARTBEAT_EVENT' = FALSE
    /\ LoopHead
    /\ rx' = NoRx
    /\ UNCHANGED <<now, mainVars, STOP_EVENT, recVars, HEARTBEAT_ID,
                   LAST_HEARTBEAT_SENT_TIME, sent, firstSentAt, codec>>

\* HEARTBEAT_EVENT.wait() returns within the timeout: lines 131-132
HbResponse ==
    /\ hbPc = "waiting"
    /\ HEARTBEAT_EVENT
    /\ HEARTBEAT_EVENT' = FALSE
    /\ hbPc' = "sleeping"
    /\ hbTimer' = now + HEARTBEAT_INTERVAL
    /\ rx' = NoRx
    /\ UNCHANGED <<now, mainVars, STOP_EVENT, recVars, HEARTBEAT_ID,
                   LAST_HEARTBEAT_SENT_TIME, heartbeat_packet, sent,
                   firstSentAt, codec>>

\* asyncio.sleep(HEARTBEAT_INTERVAL) returns: back to the loop head
HbSleepDone ==
    /\ hbPc = "sleeping"
    /\ now = hbTimer
    /\ LoopHead
    /\ rx' = NoRx
    /\ UNCHANGED <<now, mainVars, STOP_EVENT, recVars, HEARTBEAT_ID,
                   LAST_HEARTBEAT_SENT_TIME, HEARTBEAT_EVENT, sent,
                   firstSentAt, codec>>

\* HbSoftTimeout without lines 137-138: the hard timeout is only printed
HbSoftTimeout_NoStop ==
    /\ hbPc = "waiting"
    /\ ~HEARTBEAT_EVENT
    /\ now = hbTimer
    /\ LoopHead
    /\ rx' = NoRx
    /\ UNCHANGED <<now, mainVars, STOP_EVENT, recVars, HEARTBEAT_ID,
                   LAST_HEARTBEAT_SENT_TIME, HEARTBEAT_EVENT, sent,
                   firstSentAt, codec>>

\* wait_for raises TimeoutError: lines 133-138
HbSoftTimeout ==
    /\ hbPc = "waiting"
    /\ ~HEARTBEAT_EVENT
    /\ now = hbTimer
    /\ IF now - LAST_HEARTBEAT_SENT_TIME >= HARD_TIMEOUT
       THEN /\ STOP_EVENT' = TRUE
            /\ hbPc' = "returned"
            /\ UNCHANGED <<heartbeat_packet, hbTimer>>
       ELSE /\ LoopHead
            /\ UNCHANGED STOP_EVENT
    /\ rx' = NoRx
    /\ UNCHANGED <<now, mainVars, recVars, HEARTBEAT_ID,
                   LAST_HEARTBEAT_SENT_TIME, HEARTBEAT_EVENT, sent,
                   firstSentAt, codec>>

-----------------------------------------------------------------------------
(* main *)

\* await connect_to_device(): a client, or None (no device found, or
\* connect raised BleakError) and main returns
MainConnect ==
    /\ mainPc = "connect"
    /\ \E found \in BOOLEAN :
          mainPc' = IF found THEN "get_characteristics" ELSE "returned"
    /\ rx' = NoRx
    /\ UNCHANGED <<armedAt, now, record, interval, notify, disconnects, windowDeadline,
                   callStart, STOP_EVENT, recVars, HEARTBEAT_EVENT, hbVars, codec>>

\* MainGetCharacteristics with create_task(send_heartbeat()) moved before
\* the test of tx_char
MainGetCharacteristics_TaskFirst ==
    /\ mainPc = "get_characteristics"
    /\ \E result \in {"found", "none", "raise"} :
          /\ mainPc' = CASE result = "found" -> "start_notify"
                         [] result = "none" -> "disconnecting"
                         [] OTHER -> "raised"
          /\ disconnects' = IF result = "none" THEN disconnects + 1
                            ELSE disconnects
          /\ callStart' = IF result = "none" THEN now ELSE callStart
          /\ hbPc' = IF result = "raise" THEN hbPc ELSE "created"
    /\ rx' = NoRx
    /\ UNCHANGED <<armedAt, now, record, interval, notify, windowDeadline,
                   STOP_EVENT, recVars, HEARTBEAT_EVENT, HEARTBEAT_ID,
                   LAST_HEARTBEAT_SENT_TIME, heartbeat_packet, hbTimer, sent,
                   firstSentAt, codec>>

\* await get_characteristics(client): the characteristics, or (None, None)
\* and main calls client.disconnect(), or an AttributeError out of
\* custom_service.get_characteristic when the service is missing
MainGetCharacteristics ==
    /\ mainPc = "get_characteristics"
    /\ \E result \in {"found", "none", "raise"} :
          /\ mainPc' = CASE result = "found" -> "start_notify"
                         [] result = "none" -> "disconnecting"
                         [] OTHER -> "raised"
          /\ disconnects' = IF result = "none" THEN disconnects + 1
                            ELSE disconnects
          /\ callStart' = IF result = "none" THEN now ELSE callStart
    /\ rx' = NoRx
    /\ UNCHANGED <<armedAt, now, record, interval, notify, windowDeadline,
                   STOP_EVENT, recVars, HEARTBEAT_EVENT, hbVars, codec>>

\* await client.start_notify(tx_char, handle_tx_data) registers the callback
MainStartNotify ==
    /\ mainPc = "start_notify"
    /\ notify' = TRUE
    /\ mainPc' = "subscribing"
    /\ rx' = NoRx
    /\ UNCHANGED <<armedAt, now, record, interval, disconnects, windowDeadline,
                   callStart,
                   STOP_EVENT, recVars, HEARTBEAT_EVENT, hbVars, codec>>

\* MainStart setting RECORDING_START when the recording is armed
MainStart_AnchorAtArm ==
    /\ mainPc = "subscribing"
    /\ hbPc' = "created"
    /\ IF record
       THEN /\ csvfile' = <<Header>>
            /\ RECORDING_EVENT' = TRUE
            /\ RECORDING_START' = Some(now)
            /\ armedAt' = Some(now)
            /\ windowDeadline' = now + interval
            /\ mainPc' = "recording"
       ELSE /\ mainPc' = "wait_stop"
            /\ UNCHANGED <<csvfile, RECORDING_EVENT, RECORDING_START, armedAt,
                           windowDeadline>>
    /\ rx' = NoRx
    /\ UNCHANGED <<now, record, interval, notify, disconnects, callStart,
                   STOP_EVENT, HEARTBEAT_EVENT, HEARTBEAT_ID,
                   LAST_HEARTBEAT_SENT_TIME, heartbeat_packet, hbTimer, sent,
                   firstSentAt, codec>>

\* start_notify returns: create_task(send_heartbeat), then either the
\* recording is armed (lines 195-205) and main sleeps for the interval, or
\* main waits for STOP_EVENT
MainStart ==
    /\ mainPc = "subscribing"
    /\ hbPc' = "created"
    /\ IF record
       THEN /\ csvfile' = <<Header>>
            /\ RECORDING_EVENT' = TRUE
            /\ armedAt' = Some(now)
            /\ windowDeadline' = now + interval
            /\ mainPc' = "recording"
       ELSE /\ mainPc' = "wait_stop"
            /\ UNCHANGED <<csvfile, RECORDING_EVENT, armedAt, windowDeadline>>
    /\ rx' = NoRx
    /\ UNCHANGED <<now, record, interval, notify, disconnects, callStart,
                   STOP_EVENT, RECORDING_START, HEARTBEAT_EVENT, HEARTBEAT_ID,
                   LAST_HEARTBEAT_SENT_TIME, heartbeat_packet, hbTimer, sent,
                   firstSentAt, codec>>

\* MainWindowExpired without line 208: main then waits for STOP_EVENT
MainWindowExpired_NoStop ==
    /\ mainPc = "recording"
    /\ now = windowDeadline
    /\ RECORDING_EVENT' = FALSE
    /\ IF STOP_EVENT
       THEN /\ disconnects' = disconnects + 1
            /\ callStart' = now
            /\ mainPc' = "disconnecting"
       ELSE /\ mainPc' = "wait_stop"
            /\ UNCHANGED <<disconnects, callStart>>
    /\ rx' = NoRx
    /\ UNCHANGED <<armedAt, now, record, interval, notify, windowDeadline,
                   STOP_EVENT, RECORDING_START, csvfile, HEARTBEAT_EVENT,
                   hbVars, codec>>

\* asyncio.sleep(interval) returns: lines 206-208; STOP_EVENT.wait() returns
\* at once and main calls client.disconnect()
MainWindowExpired ==
    /\ mainPc = "recording"
    /\ now = windowDeadline
    /\ RECORDING_EVENT' = FALSE
    /\ STOP_EVENT' = TRUE
    /\ disconnects' = disconnects + 1
    /\ callStart' = now
    /\ mainPc' = "disconnecting"
    /\ rx' = NoRx
    /\ UNCHANGED <<armedAt, now, record, interval, notify, windowDeadline,
                   RECORDING_START, csvfile, HEARTBEAT_EVENT, hbVars, codec>>

\* MainStopObserved without line 213: main returns, the client still
\* connected
MainStopObserved_NoDisconnect ==
    /\ mainPc = "wait_stop"
    /\ STOP_EVENT
    /\ mainPc' = "returned"
    /\ notify' = FALSE
    /\ hbPc' = IF hbPc \in {"notstarted", "returned"} THEN hbPc ELSE "cancelled"
    /\ rx' = NoRx
    /\ UNCHANGED <<armedAt, now, record, interval, disconnects, windowDeadline,
                   callStart, STOP_EVENT, recVars, HEARTBEAT_EVENT,
                   HEARTBEAT_ID, LAST_HEARTBEAT_SENT_TIME, heartbeat_packet,
                   hbTimer, sent, firstSentAt, codec>>

\* STOP_EVENT.wait() returns: main calls client.disconnect()
MainStopObserved ==
    /\ mainPc = "wait_stop"
    /\ STOP_EVENT
    /\ disconnects' = disconnects + 1
    /\ callStart' = now
    /\ mainPc' = "disconnecting"
    /\ rx' = NoRx
    /\ UNCHANGED <<armedAt, now, record, interval, notify, windowDeadline, STOP_EVENT,
                   recVars, HEARTBEAT_EVENT, hbVars, codec>>

\* MainDisconnected followed by STOP_EVENT.clear()
MainDisconnected_ClearsStop ==
    /\ mainPc = "disconnecting"
    /\ mainPc' = "returned"
    /\ notify' = FALSE
    /\ STOP_EVENT' = FALSE
    /\ hbPc' = IF hbPc \in {"notstarted", "returned"} THEN hbPc ELSE "cancelled"
    /\ rx' = NoRx
    /\ UNCHANGED <<armedAt, now, record, interval, disconnects, windowDeadline,
                   callStart, recVars, HEARTBEAT_EVENT, HEARTBEAT_ID,
                   LAST_HEARTBEAT_SENT_TIME, heartbeat_packet, hbTimer, sent,
                   firstSentAt, codec>>

\* client.disconnect() returns and main returns: asyncio.run cancels the
\* heartbeat task if it still runs, and no callback runs any more
MainDisconnected ==
    /\ mainPc = "disconnecting"
    /\ mainPc' = "returned"
    /\ notify' = FALSE
    /\ hbPc' = IF hbPc \in {"notstarted", "returned"} THEN hbPc ELSE "cancelled"
    /\ rx' = NoRx
    /\ UNCHANGED <<armedAt, now, record, interval, disconnects, windowDeadline,
                   callStart, STOP_EVENT, recVars, HEARTBEAT_EVENT,
                   HEARTBEAT_ID,
                   LAST_HEARTBEAT_SENT_TIME, heartbeat_packet, hbTimer, sent,
                   firstSentAt, codec>>

-----------------------------------------------------------------------------
(* The clock *)

\* A coroutine that can run does so before the clock moves: a task just
\* created, a wait whose event is set, a timer that is due.
Ready ==
    \/ hbPc = "created"
    \/ hbPc = "waiting" /\ (HEARTBEAT_EVENT \/ now >= hbTimer)
    \/ hbPc = "sleeping" /\ now >= hbTimer
    \/ mainPc = "recording" /\ now >= windowDeadline
    \/ mainPc = "wait_stop" /\ STOP_EVENT

\* One second passes.  The clock is followed from the return of
\* start_notify, for `limit` seconds; a call of the transport returns
\* within `callTime` seconds.
TickTo(limit, callTime) ==
    /\ mainPc \in {"recording", "wait_stop", "disconnecting"}
    /\ ~Ready
    /\ hbPc = "writing" => now < hbTimer + callTime
    /\ mainPc = "disconnecting" => now < callStart + callTime
    /\ now < StartClock + limit
    /\ now' = now + 1
    /\ rx' = NoRx
    /\ UNCHANGED <<mainVars, STOP_EVENT, recVars, HEARTBEAT_EVENT, hbVars,
                   codec>>

Tick == TickTo(MaxTime, MaxCallTime)

-----------------------------------------------------------------------------
(* The session *)

NoCodec == [op |-> "none", input |-> <<>>, output |-> <<>>]

\* The state when main is called: the module's globals as lines 22-27 and
\* 105-110 set them
Start ==
    /\ now = StartClock
    /\ record \in BOOLEAN
    /\ interval \in {ShortInterval, EMG_RECORDING_INTERVAL}
    /\ mainPc = "connect"
    /\ notify = FALSE
    /\ disconnects = 0
    /\ windowDeadline = 0
    /\ callStart = 0
    /\ armedAt = None
    /\ STOP_EVENT = FALSE
    /\ RECORDING_EVENT = FALSE
    /\ RECORDING_START = None
    /\ csvfile = <<>>
    /\ HEARTBEAT_ID = 0
    /\ LAST_HEARTBEAT_SENT_TIME = 0
    /\ HEARTBEAT_EVENT = FALSE
    /\ hbPc = "notstarted"
    /\ heartbeat_packet = None
    /\ hbTimer = 0
    /\ sent = 0
    /\ firstSentAt = None
    /\ rx = NoRx

Deliver == \E data \in RxFrames \cup Echo : handle_tx_data(data)

Next ==
    \/ MainConnect
    \/ MainGetCharacteristics
    \/ MainStartNotify
    \/ MainStart
    \/ MainWindowExpired
    \/ MainStopObserved
    \/ MainDisconnected
    \/ HbStart
    \/ HbWriteOk
    \/ HbWriteFails
    \/ HbResponse
    \/ HbSleepDone
    \/ HbSoftTimeout
    \/ Deliver
    \/ Tick

\* A session without recording, or one that records for a short interval
Init ==
    /\ Start
    /\ interval = IF record THEN ShortInterval ELSE EMG_RECORDING_INTERVAL
    /\ codec = NoCodec

Spec == Init /\ [][Next]_vars

-----------------------------------------------------------------------------
(* The default recording interval.  The device sends samples and answers *)
(* no heartbeat.                                                          *)

InitWindow ==
    /\ Start
    /\ record
    /\ interval = EMG_RECORDING_INTERVAL
    /\ codec = NoCodec

DeliverSamples == handle_tx_data(SamplesFrame)

NextWindow ==
    \/ MainConnect
    \/ MainGetCharacteristics
    \/ MainStartNotify
    \/ MainStart
    \/ MainWindowExpired
    \/ MainDisconnected
    \/ HbStart
    \/ HbWriteOk
    \/ HbWriteFails
    \/ HbSoftTimeout
    \/ DeliverSamples
    \/ Tick

SpecWindow == InitWindow /\ [][NextWindow]_vars

-----------------------------------------------------------------------------
(* A silent device: no recording, every write succeeds, and no heartbeat *)
(* frame is ever delivered.                                               *)

InitSilent ==
    /\ Start
    /\ ~record
    /\ interval = EMG_RECORDING_INTERVAL
    /\ codec = NoCodec

DeliverOther ==
    \E data \in {<<>>, <<9, 0>>, ShortSamplesFrame, SamplesFrame} :
        handle_tx_data(data)

NextSilent ==
    \/ MainConnect
    \/ MainGetCharacteristics
    \/ MainStartNotify
    \/ MainStart
    \/ HbStart
    \/ HbWriteOk
    \/ HbSoftTimeout
    \/ DeliverOther
    \/ Tick

SpecSilent == InitSilent /\ [][NextSilent]_vars

-----------------------------------------------------------------------------
(* A long session without recording, long enough for HEARTBEAT_ID to wrap. *)
(* A write returns at once; the device echoes a heartbeat in the second it *)
(* was written, or not at all.                                             *)

DeliverEcho ==
    /\ hbPc = "waiting"
    /\ now = LAST_HEARTBEAT_SENT_TIME
    /\ handle_tx_data(heartbeat_packet)

TickLong == TickTo(MaxTimeLong, 0)

NextLong ==
    \/ MainConnect
    \/ MainGetCharacteristics
    \/ MainStartNotify
    \/ MainStart
    \/ MainStopObserved
    \/ MainDisconnected
    \/ HbStart
    \/ HbWriteOk
    \/ HbWriteFails
    \/ HbResponse
    \/ HbSleepDone
    \/ HbSoftTimeout
    \/ DeliverEcho
    \/ TickLong

SpecLong == InitSilent /\ [][NextLong]_vars

-----------------------------------------------------------------------------
(* process_emg_signal on its own, applied to samples frames of 17 bytes *)

\* bytes of the frames tried
Bytes == {0, 1, 127, 128, 255}
Steps == {0, 1, 37}

\* tag 0x04, then 8 pairs: pair k is ((hi + k * dh) % 256, (lo + k * dl) % 256)
PairsFrame(hi, lo, dh, dl) ==
    <<4>> \o [j \in 1..16 |->
                LET k == (j + 1) \div 2
                IN  IF j % 2 = 1 THEN (hi + k * dh) % 256
                    ELSE (lo + k * dl) % 256]

CodecFrames ==
    {SamplesFrame} \cup
    {PairsFrame(hi, lo, dh, dl) : hi \in Bytes, lo \in Bytes, dh \in Steps,
                                  dl \in Steps}

InitCodec ==
    /\ Start
    /\ ~record
    /\ interval = EMG_RECORDING_INTERVAL
    /\ codec \in {[op |-> "input", input |-> f, output |-> <<>>] :
                    f \in CodecFrames}

CodecProcessEmgSignal ==
    /\ codec.op = "input"
    /\ codec' = [op |-> "process_emg_signal", input |-> codec.input,
                 output |-> process_emg_signal(codec.input)]
    /\ UNCHANGED <<now, mainVars, STOP_EVENT, recVars, HEARTBEAT_EVENT, hbVars,
                   rx>>

NextCodec == CodecProcessEmgSignal

SpecCodec == InitCodec /\ [][NextCodec]_vars

-----------------------------------------------------------------------------
(* Claims *)

\* C1 (as claimed): with every write successful and no heartbeat frame
\* delivered, STOP_EVENT is set no earlier than HARD_TIMEOUT after the first
\* successful send and is set once HARD_TIMEOUT + HEARTBEAT_INTERVAL have
\* passed since it.
C1_EndToEndHardTimeout ==
    firstSentAt # None =>
        /\ STOP_EVENT => now >= Val(firstSentAt) + HARD_TIMEOUT
        /\ now > Val(firstSentAt) + HARD_TIMEOUT + HEARTBEAT_INTERVAL
              => STOP_EVENT

\* a step of send_heartbeat out of wait_for by TimeoutError
SoftTimeoutStep == hbPc = "waiting" /\ hbPc' \in {"writing", "returned"}

\* C2: a soft timeout at which HARD_TIMEOUT or more has passed since
\* LAST_HEARTBEAT_SENT_TIME sets STOP_EVENT and ends send_heartbeat, which
\* from then on starts no write.
C2_HardTimeoutStops ==
    /\ [][(SoftTimeoutStep /\ now - LAST_HEARTBEAT_SENT_TIME >= HARD_TIMEOUT)
              => (STOP_EVENT' /\ hbPc' = "returned")]_vars
    /\ [][hbPc = "returned"
              => (hbPc' = "returned" /\ UNCHANGED <<heartbeat_packet, sent>>)]_vars

\* C2 witness: send_heartbeat has returned on a hard timeout after a
\* successful send, in a session that only it can stop.
C2_Witness ==
    /\ hbPc = "returned"
    /\ STOP_EVENT
    /\ ~record
    /\ sent >= 1
    /\ now - LAST_HEARTBEAT_SENT_TIME >= HARD_TIMEOUT

\* a frame with type tag 0x01 and an id byte
IsHeartbeatFrame(data) == Len(data) >= 2 /\ At(data, 0) = 1

\* the step just taken ran the callback on a frame
Delivered == rx.outcome # "none"

\* C3: a frame with tag 0x01 and an id byte, matching or not, sets
\* HEARTBEAT_EVENT and changes neither HEARTBEAT_ID, LAST_HEARTBEAT_SENT_TIME
\* nor STOP_EVENT; a send_heartbeat that waits with the event set leaves the
\* wait by the response branch (clear, then sleep), within its timeout.
C3_LenientRelease ==
    /\ [][(Delivered' /\ IsHeartbeatFrame(rx'.data))
              => /\ HEARTBEAT_EVENT'
                 /\ rx'.outcome \in {"heartbeat", "mismatch"}
                 /\ UNCHANGED <<HEARTBEAT_ID, LAST_HEARTBEAT_SENT_TIME,
                                STOP_EVENT>>]_vars
    /\ [][(hbPc = "waiting" /\ HEARTBEAT_EVENT /\ hbPc' # "waiting")
              => /\ hbPc' \in {"sleeping", "cancelled"}
                 /\ now <= hbTimer
                 /\ hbPc' = "sleeping" => ~HEARTBEAT_EVENT']_vars

\* C3 witness: a frame whose id is not the expected one was delivered to a
\* waiting send_heartbeat before its timeout.
C3_Witness ==
    /\ rx.outcome = "mismatch"
    /\ hbPc = "waiting"
    /\ HEARTBEAT_EVENT
    /\ now < hbTimer

\* C4 (as claimed): a heartbeat frame whose id is the id of the packet
\* written last is classified as the matching response, whenever it is
\* delivered.
C4_MatchUnderInterleaving ==
    (/\ rx.outcome \in {"heartbeat", "mismatch"}
     /\ heartbeat_packet # None
     /\ rx.received_id = Some(At(heartbeat_packet, 1)))
        => rx.outcome = "heartbeat"

\* C5: HEARTBEAT_ID is in 0..255 and is the number of successful writes
\* mod 256; a successful write adds 1 to it, 255 going to 0, and a failed
\* write changes neither it nor LAST_HEARTBEAT_SENT_TIME.
C5_HeartbeatIdCounter ==
    /\ [](HEARTBEAT_ID \in 0..255 /\ HEARTBEAT_ID = sent % 256)
    /\ [][(hbPc = "writing" /\ hbPc' = "waiting")
              => IF sent' = sent + 1
                 THEN HEARTBEAT_ID' = IF HEARTBEAT_ID = 255 THEN 0
                                      ELSE HEARTBEAT_ID + 1
                 ELSE UNCHANGED <<HEARTBEAT_ID, LAST_HEARTBEAT_SENT_TIME,
                                  sent>>]_vars
    /\ [][HEARTBEAT_ID' # HEARTBEAT_ID => sent' = sent + 1]_vars

\* C5 witness: after 256 successful writes the id is 0 again, and the write
\* after them has failed.
C5_Witness ==
    /\ sent = 256
    /\ HEARTBEAT_ID = 0
    /\ hbPc = "waiting"
    /\ LAST_HEARTBEAT_SENT_TIME + HEARTBEAT_TIMEOUT < hbTimer

\* C6: the packet of a write is [0x01, HEARTBEAT_ID, 0xFF, 0xFF, 0xFF, 0x0A]
\* for the id it was built from, and its echo is routed to
\* process_heartbeat_packet, which reads that id back.
C6_HeartbeatRoundTrip ==
    /\ hbPc = "writing" =>
          /\ HEARTBEAT_ID \in 0..255
          /\ heartbeat_packet = <<1, HEARTBEAT_ID, 255, 255, 255, 10>>
    /\ (Delivered /\ rx.data = heartbeat_packet) =>
          /\ Len(heartbeat_packet) = 6
          /\ rx.outcome \in {"heartbeat", "mismatch"}
          /\ rx.received_id = Some(heartbeat_packet[2])

\* C6 witness: the echo of the packet of id 255 was read back as 255.
C6_Witness ==
    /\ rx.data = <<1, 255, 255, 255, 255, 10>>
    /\ rx.outcome = "heartbeat"
    /\ rx.received_id = Some(255)

\* C7: on a frame of tag 0x04 and 8 byte pairs process_emg_signal returns 8
\* values, value i being 256 * frame[2i-1] + frame[2i], within 0..65535; the
\* frame of pairs (0,1), ..., (0,8) gives 1, ..., 8.
C7_SampleDecode ==
    (/\ codec.op = "process_emg_signal"
     /\ Len(codec.input) = 17
     /\ At(codec.input, 0) = 4)
        => /\ ~codec.output.raised
           /\ Len(codec.output.values) = 8
           /\ \A i \in 1..8 :
                 /\ codec.output.values[i] =
                       256 * At(codec.input, 2 * i - 1) + At(codec.input, 2 * i)
                 /\ codec.output.values[i] \in 0..65535
           /\ codec.input = SamplesFrame
                 => codec.output.values = <<1, 2, 3, 4, 5, 6, 7, 8>>

\* C7 witness: a frame whose pairs have both bytes set was decoded.
C7_Witness ==
    /\ codec.op = "process_emg_signal"
    /\ codec.input = PairsFrame(127, 255, 1, 0)
    /\ codec.output.values[8] = 256 * 135 + 255

\* frames the claim calls malformed: empty, of unknown tag, tag 0x01 without
\* an id byte, tag 0x04 with fewer than 8 pairs
Malformed(data) ==
    \/ Len(data) = 0
    \/ /\ Len(data) > 0
       /\ \/ At(data, 0) \notin {1, 4}
          \/ At(data, 0) = 1 /\ Len(data) < 2
          \/ At(data, 0) = 4 /\ Len(data) < 17

\* C8 (as claimed): on a malformed frame the callback completes without
\* raising, treats the frame as unknown, appends no row and changes neither
\* the heartbeat state, HEARTBEAT_EVENT nor STOP_EVENT.
C8_MalformedDropped ==
    [][(Delivered' /\ Malformed(rx'.data))
          => /\ rx'.outcome = "ignored"
             /\ UNCHANGED <<csvfile, RECORDING_START, HEARTBEAT_ID,
                            LAST_HEARTBEAT_SENT_TIME, HEARTBEAT_EVENT,
                            STOP_EVENT>>]_vars

\* C9: RECORDING_START is None from the arming to the first samples frame
\* delivered with RECORDING_EVENT set, becomes the time of that delivery and
\* never changes again; every row appended holds the time of its frame
\* minus RECORDING_START, so the first row holds 0, and samples 5 and 8
\* seconds after the arming give rows of 0 and 3.
C9_WindowAnchoring ==
    /\ [](/\ (armedAt # None /\ DataRows = 0) => RECORDING_START = None
          /\ armedAt = None => RECORDING_START = None
          /\ DataRows >= 1 => csvfile[2][1] = 0
          /\ (/\ DataRows = 2
              /\ RECORDING_START = Some(Val(armedAt) + 5)
              /\ rx.outcome = "samples"
              /\ now = Val(armedAt) + 8)
                => (csvfile[2][1] = 0 /\ csvfile[3][1] = 3))
    /\ [][RECORDING_START # None => RECORDING_START' = RECORDING_START]_vars
    /\ [][(rx'.outcome = "samples" /\ RECORDING_EVENT)
              => /\ RECORDING_START = None => RECORDING_START' = Some(now)
                 /\ Len(csvfile') = Len(csvfile) + 1
                 /\ csvfile'[Len(csvfile')][1] = now - Val(RECORDING_START')]_vars

\* C9 witness: armed, then samples 5 and 8 seconds later: rows of 0 and 3.
C9_Witness ==
    /\ armedAt # None
    /\ RECORDING_START = Some(Val(armedAt) + 5)
    /\ csvfile = <<Header, <<0, 1, 2, 3, 4, 5, 6, 7, 8>>,
                   <<3, 1, 2, 3, 4, 5, 6, 7, 8>>>>

\* C10: a recording armed for `interval` seconds keeps RECORDING_EVENT set
\* until exactly that long after the arming, when main clears it and sets
\* STOP_EVENT, samples or not, whatever send_heartbeat does.
C10_WindowExpiry ==
    /\ [](armedAt # None =>
            /\ now < Val(armedAt) + interval
                  => (mainPc = "recording" /\ RECORDING_EVENT)
            /\ now > Val(armedAt) + interval
                  => (~RECORDING_EVENT /\ STOP_EVENT)
            /\ mainPc # "recording" => (~RECORDING_EVENT /\ STOP_EVENT))
    /\ [][(mainPc = "recording" /\ mainPc' # "recording")
              => /\ now = Val(armedAt) + interval
                 /\ ~RECORDING_EVENT'
                 /\ STOP_EVENT']_vars

\* C10 witness: the window expired with no samples frame ever recorded,
\* while send_heartbeat was in a write.
C10_Witness ==
    /\ armedAt # None
    /\ now = Val(armedAt) + interval
    /\ mainPc = "disconnecting"
    /\ RECORDING_START = None
    /\ hbPc = "writing"
    /\ ~RECORDING_EVENT
    /\ STOP_EVENT

-----------------------------------------------------------------------------
(* Startup and shutdown of main *)

\* nothing of the streaming session exists: no callback registered, no
\* heartbeat task, no packet built or written, no file, no recording
NothingStarted ==
    /\ ~notify
    /\ hbPc = "notstarted"
    /\ heartbeat_packet = None
    /\ sent = 0
    /\ csvfile = <<>>
    /\ armedAt = None
    /\ ~RECORDING_EVENT
    /\ RECORDING_START = None
    /\ ~STOP_EVENT

\* the step just taken is a failure of connect_to_device (None) or of
\* get_characteristics ((None, None), or an exception)
StartupFails ==
    \/ mainPc = "connect" /\ mainPc' = "returned"
    \/ mainPc = "get_characteristics" /\ mainPc' \in {"disconnecting", "raised"}

\* C11: until start_notify is called nothing of the streaming session
\* exists; when connect_to_device or get_characteristics fails, main ends
\* (after client.disconnect() if it had a client and no exception) and
\* nothing of it ever comes to exist: no callback, no heartbeat task or
\* write, no file, no recording.
C11_StartupFailure ==
    /\ [](mainPc \in {"connect", "get_characteristics", "start_notify", "raised"}
              => NothingStarted)
    /\ [][StartupFails => NothingStarted']_vars
    /\ [][(NothingStarted /\ mainPc \in {"disconnecting", "returned", "raised"})
              => /\ NothingStarted'
                 /\ mainPc' \in {"disconnecting", "returned", "raised"}
                 /\ mainPc' # mainPc => (mainPc = "disconnecting" /\ mainPc' = "returned")]_vars

\* C11 witness: get_characteristics returned (None, None), main has
\* disconnected and returned, a second later.
C11_Witness ==
    /\ mainPc = "returned"
    /\ disconnects = 1
    /\ now > StartClock
    /\ NothingStarted

\* C12: once STOP_EVENT is set it stays set: no step of main, of
\* send_heartbeat or of the callback clears it.
C12_StopMonotone == [][STOP_EVENT => STOP_EVENT']_vars

\* C12 witness: send_heartbeat set STOP_EVENT and returned; main has seen
\* it, disconnected and returned, and STOP_EVENT is still set.
C12_Witness ==
    /\ ~record
    /\ STOP_EVENT
    /\ hbPc = "returned"
    /\ mainPc = "returned"
    /\ disconnects = 1

-----------------------------------------------------------------------------
(* A session under a fair scheduler: the event loop runs every coroutine   *)
(* that can run, a call of the transport returns, and time passes.  The    *)
(* device sends nothing but echoes of the heartbeat written last.          *)

DeliverHeartbeat == \E data \in Echo : handle_tx_data(data)

NextOrderly ==
    \/ MainConnect
    \/ MainGetCharacteristics
    \/ MainStartNotify
    \/ MainStart
    \/ MainWindowExpired
    \/ MainStopObserved
    \/ MainDisconnected
    \/ HbStart
    \/ HbWriteOk
    \/ HbWriteFails
    \/ HbResponse
    \/ HbSleepDone
    \/ HbSoftTimeout
    \/ DeliverHeartbeat
    \/ Tick

Fairness ==
    /\ WF_vars(Tick)
    /\ WF_vars(MainWindowExpired)
    /\ WF_vars(MainStopObserved)
    /\ WF_vars(HbStart)
    /\ WF_vars(HbWriteOk \/ HbWriteFails)
    /\ WF_vars(HbResponse)
    /\ WF_vars(HbSleepDone)
    /\ WF_vars(HbSoftTimeout)

SpecOrderly == Init /\ [][NextOrderly]_vars /\ Fairness

\* C13: client.disconnect() is called at most once; in a session that got
\* its characteristics it is called only with STOP_EVENT set; and once
\* STOP_EVENT is set, main comes to call it.
C13_OrderlyDisconnect ==
    /\ [](disconnects <= 1)
    /\ [][disconnects' # disconnects
              => /\ disconnects' = 1
                 /\ mainPc # "get_characteristics" => STOP_EVENT']_vars
    /\ STOP_EVENT ~> (disconnects = 1)

\* C13 witness: send_heartbeat set STOP_EVENT while main slept in the
\* recording; main has called client.disconnect() after the sleep.
C13_Witness ==
    /\ record
    /\ hbPc = "returned"
    /\ STOP_EVENT
    /\ mainPc = "disconnecting"
    /\ notify
    /\ disconnects = 1

\* C14 (as claimed): when STOP_EVENT is set while main is in the sleep of
\* the recording, main leaves the sleep for client.disconnect() before any
\* more time passes.
C14_StopCutsWindow ==
    [][(mainPc = "recording" /\ STOP_EVENT)
          => /\ now' = now
             /\ mainPc' # mainPc => mainPc' = "disconnecting"]_vars

\* C15: STOP_EVENT is set only by a soft timeout of send_heartbeat at which
\* HARD_TIMEOUT or more has passed since LAST_HEARTBEAT_SENT_TIME, or by
\* main at the end of the recording interval, and whenever it is set one
\* of the two has happened.  A write that raised BleakError is followed by
\* the wait, and a frame delivered (of a wrong id, or dropped) changes
\* neither STOP_EVENT nor where send_heartbeat is; send_heartbeat returns
\* only with STOP_EVENT set.
C15_OnlyTwoCauses ==
    /\ [](STOP_EVENT =>
            \/ /\ hbPc = "returned"
               /\ now - LAST_HEARTBEAT_SENT_TIME >= HARD_TIMEOUT
            \/ /\ armedAt # None
               /\ now >= Val(armedAt) + interval
               /\ mainPc \in {"disconnecting", "returned"})
    /\ [][(~STOP_EVENT /\ STOP_EVENT')
              => \/ /\ SoftTimeoutStep
                    /\ ~HEARTBEAT_EVENT
                    /\ now = hbTimer
                    /\ now - LAST_HEARTBEAT_SENT_TIME >= HARD_TIMEOUT
                 \/ /\ mainPc = "recording"
                    /\ now = windowDeadline
                    /\ mainPc' = "disconnecting"]_vars
    /\ [][(hbPc = "writing" /\ hbPc' # hbPc)
              => /\ hbPc' \in {"waiting", "cancelled"}
                 /\ UNCHANGED STOP_EVENT]_vars
    /\ [][Delivered' => UNCHANGED <<STOP_EVENT, hbPc, mainPc>>]_vars
    /\ [][(hbPc # "returned" /\ hbPc' = "returned") => STOP_EVENT']_vars

\* C15 witness: after two successful sends and a rejected one, a frame of a
\* wrong id is delivered to a session that does not record, and
\* STOP_EVENT is not set.
C15_Witness ==
    /\ ~record
    /\ sent = 2
    /\ hbPc = "waiting"
    /\ hbTimer > LAST_HEARTBEAT_SENT_TIME + HEARTBEAT_TIMEOUT + HEARTBEAT_INTERVAL
    /\ rx.outcome = "mismatch"
    /\ ~STOP_EVENT

\* the step just taken starts a write: send_heartbeat built a packet and
\* called write_gatt_char
WriteIssued == hbPc # "writing" /\ hbPc' = "writing"

\* a write is started by the new task, or out of a wait that ended: by
\* TimeoutError, or by the event followed by the sleep
AfterWaitEnded ==
    \/ hbPc = "created" /\ heartbeat_packet = None
    \/ hbPc = "waiting" /\ ~HEARTBEAT_EVENT /\ now = hbTimer
    \/ hbPc = "sleeping" /\ now = hbTimer

\* C16 (as claimed): every write started carries the id of the write
\* started before it plus 1 mod 256, the first carries 0, and a write is
\* started only after the wait of the one before has ended.
C16_SendOrdering ==
    [][WriteIssued
          => /\ At(heartbeat_packet', 1) =
                   IF heartbeat_packet = None THEN 0
                   ELSE (At(heartbeat_packet, 1) + 1) % 256
             /\ AfterWaitEnded]_vars

\* C16 (amended): every write started carries the number of writes that
\* succeeded before it, mod 256: the id of the write before it plus 1 mod
\* 256 if that one succeeded, the same id again if it was rejected; the
\* writes that succeed carry 0, 1, 2, ... mod 256 in this order; and a
\* write is started only after the wait of the one before has ended.
C16_SendOrderingOfAccepted ==
    [][/\ WriteIssued
          => /\ At(heartbeat_packet', 1) = sent % 256
             /\ heartbeat_packet # None
                   => At(heartbeat_packet', 1) \in
                         { At(heartbeat_packet, 1),
                           (At(heartbeat_packet, 1) + 1) % 256 }
             /\ AfterWaitEnded
       /\ sent' # sent
          => /\ hbPc = "writing"
             /\ sent' = sent + 1
             /\ At(heartbeat_packet, 1) = sent % 256
             /\ UNCHANGED heartbeat_packet]_vars

\* C16 witness: after 256 accepted writes the write of id 0 was rejected,
\* its wait timed out, and id 0 is being written again.
C16_Witness ==
    /\ hbPc = "writing"
    /\ sent = 256
    /\ At(heartbeat_packet, 1) = 0
    /\ hbTimer = LAST_HEARTBEAT_SENT_TIME + 2 * HEARTBEAT_TIMEOUT

\* C17: a wait that ends with HEARTBEAT_EVENT set is followed by the clear
\* of the event and a sleep of HEARTBEAT_INTERVAL, and the next write is
\* started when that sleep ends, not before; a wait that ends by
\* TimeoutError with less than HARD_TIMEOUT since LAST_HEARTBEAT_SENT_TIME
\* is followed by the next write in the same instant, without a sleep.
\* (The loop ends instead of writing if main has set STOP_EVENT meanwhile.)
C17_SendCadence ==
    /\ [][(hbPc = "waiting" /\ HEARTBEAT_EVENT /\ hbPc' \notin {"waiting", "cancelled"})
              => /\ hbPc' = "sleeping"
                 /\ ~HEARTBEAT_EVENT'
                 /\ hbTimer' = now + HEARTBEAT_INTERVAL]_vars
    /\ [](hbPc = "sleeping" => now <= hbTimer)
    /\ [][(hbPc = "sleeping" /\ hbPc' \notin {"sleeping", "cancelled"})
              => /\ now = hbTimer
                 /\ hbPc' = IF STOP_EVENT THEN "returned" ELSE "writing"
                 /\ hbPc' = "writing" => hbTimer' = now]_vars
    /\ [][(/\ hbPc = "waiting"
           /\ ~HEARTBEAT_EVENT
           /\ hbPc' \notin {"waiting", "cancelled"}
           /\ now - LAST_HEARTBEAT_SENT_TIME < HARD_TIMEOUT)
              => /\ now' = now
                 /\ hbPc' = IF STOP_EVENT THEN "returned" ELSE "writing"
                 /\ hbPc' = "writing" => hbTimer' = now]_vars

\* C17 witness: a heartbeat was sent, the event was set a second later,
\* and the next write starts HEARTBEAT_INTERVAL after that.
C17_Witness ==
    /\ hbPc = "writing"
    /\ sent >= 1
    /\ now = hbTimer
    /\ now = LAST_HEARTBEAT_SENT_TIME + 1 + HEARTBEAT_INTERVAL
    /\ ~STOP_EVENT

\* C18: RECORDING_EVENT is set exactly while main sleeps in the recording.
\* A frame delivered outside of it changes neither the file nor
\* RECORDING_START.  The file changes only when main writes the header,
\* which makes it the header alone, and when a samples frame is delivered
\* during the recording, which appends one row: so the rows after the
\* header are as many as those frames, and the header stays first.
C18_InactiveWindowNoOp ==
    /\ [](/\ RECORDING_EVENT <=> mainPc = "recording"
          /\ armedAt = None => (csvfile = <<>> /\ RECORDING_START = None)
          /\ armedAt # None => (Len(csvfile) >= 1 /\ csvfile[1] = Header))
    /\ [][(Delivered' /\ mainPc # "recording")
              => UNCHANGED <<csvfile, RECORDING_START>>]_vars
    /\ [][(rx'.outcome = "samples" /\ mainPc = "recording")
              => /\ Len(csvfile') = Len(csvfile) + 1
                 /\ SubSeq(csvfile', 1, Len(csvfile)) = csvfile
                 /\ Len(csvfile'[Len(csvfile')]) = 9]_vars
    /\ [][csvfile' # csvfile
              => \/ armedAt = None /\ armedAt' # None /\ csvfile' = <<Header>>
                 \/ rx'.outcome = "samples" /\ mainPc = "recording"]_vars

\* C18 witness: a session that recorded one row gets a samples frame after
\* the recording has ended, and still has one row.
C18_Witness ==
    /\ record
    /\ mainPc = "disconnecting"
    /\ ~RECORDING_EVENT
    /\ rx.outcome = "samples"
    /\ rx.data = SamplesFrame
    /\ DataRows = 1
    /\ RECORDING_START # None

\* C19 (as claimed): when send_heartbeat starts a write, HEARTBEAT_EVENT is
\* not set: an event set by a frame delivered before (during the sleep, or
\* a second frame for a beat already answered) is not left to release the
\* wait of the beat now written, which only a frame delivered from now on
\* can release before its timeout.
C19_NoStaleRelease == [][WriteIssued => ~HEARTBEAT_EVENT']_vars

\* C20 (as claimed): send_heartbeat, which starts at StartClock (the clock
\* is followed from the return of start_notify, and the new task runs
\* before it moves), does not set STOP_EVENT before HARD_TIMEOUT has
\* passed since then, rejected writes or not.
C20_NoPrematureHardTimeout ==
    [][(SoftTimeoutStep /\ ~STOP_EVENT /\ STOP_EVENT')
          => now >= StartClock + HARD_TIMEOUT]_vars

====
